---------------------------- MODULE Spec2Model ----------------------------
(***************************************************************************)
(* A model of the jp-dict extraction pipeline:                             *)
(*   - the text helpers of src/src/obunsha_dict.rs and                     *)
(*     src/src/data_cleaner.rs (sanitizers, parse_headline, the boundary   *)
(*     predicates), as operators over sequences of code points;            *)
(*   - DataCleaner::clean_exported_dict, one action per loop iteration;    *)
(*   - ObunshaDictDatabase::import_from_cleaned_data, one action per loop  *)
(*     iteration, with insert_entries_batch;                               *)
(*   - ObunshaDictDatabase::parse_entry_from_html, one call;               *)
(*   - the tables behind ObunshaDictDatabase (src/src/obunsha_dict.rs) and *)
(*     Database (src/src/database.rs), one action per call;                *)
(*   - DictParser::clean_kana and clean_kanji (src/src/parser.rs).         *)
(*   - ObunshaDictDatabase::extract_definition_text, one call;             *)
(*   - the import with a storage that may fail in any statement of a       *)
(*     batch, and the cleaner followed by the import of what it wrote;     *)
(*   - ObunshaDictDatabase::search_by_kanji_smart, one call.               *)
(* A string is a sequence of Unicode code points (naturals).  Byte lengths *)
(* (str::len) are computed from the UTF-8 width of each code point.        *)
(***************************************************************************)
EXTENDS Integers, Sequences, FiniteSets, TLC

VARIABLES
    \* --- a call of one text helper (SpecSanitize, SpecHeadline) ---
    text,               \* the argument string (the title, for parse_entry_from_html)
    markup,             \* the markup line argument of parse_entry_from_html
    called,             \* which helper has been applied ("none" before the call)
    result,             \* what it returned
    again,              \* the helper applied to its own result (sanitizers)
    \* --- a run over a file of lines (Spec, SpecImport) ---
    input,              \* the lines of the file being read
    pos,                \* number of lines the reader has consumed
    finished,           \* the loop has ended and the function returned
    \* --- DataCleaner fields (data_cleaner.rs:7-16) ---
    redirect_map,
    valid_entries,
    redirect_entries,
    boundary_reached,
    output,             \* lines written to the cleaned file
    \* --- locals of import_from_cleaned_data (obunsha_dict.rs:307-309) ---
    entries,
    current_title,
    processed_count,
    batches,            \* the slices passed to insert_entries_batch, in call order
    \* --- the database behind a connection (obunsha_dict.rs:33-35, database.rs:23-25) ---
    conn,               \* the table: whether it exists, its rows, its AUTOINCREMENT mark
    inserted            \* the entries of the rows inserted since the table was last empty
                        \* by construction or clearing, in order (for the properties only)

vars == <<text, markup, called, result, again, input, pos, finished, redirect_map,
          valid_entries, redirect_entries, boundary_reached, output,
          entries, current_title, processed_count, batches, conn, inserted>>

textVars == <<text, markup, called, result, again>>
dbVars == <<conn, inserted>>
fileVars == <<input, pos, finished>>
cleanerVars == <<redirect_map, valid_entries, redirect_entries, boundary_reached, output>>
importVars == <<entries, current_title, processed_count, batches>>

---------------------------------------------------------------------------
(* Bounds of the model *)

\* longest argument string of a sanitizer
MaxTextLen == 3
\* longest title line given to parse_headline
MaxHeadLen == 4
\* longest input file of a cleaning run, in lines
MaxLines == 4
\* longest input file of an import run, in lines
MaxImportLines == 6
\* the batch size of the import: entries.len() >= 1000 in the code
\* (obunsha_dict.rs:329), scaled down so that a run fills several batches
BatchSize == 2
\* longest slice passed to insert_entries_batch in a run of database calls
MaxBatchLen == 2
\* most rows inserted in a run of database calls
MaxInserted == 4
\* most class-carrying elements in a markup block given to extract_definition_text
MaxNodes == 2

---------------------------------------------------------------------------
(* Option<T> *)

None == [some |-> FALSE]
Some(v) == [some |-> TRUE, val |-> v]
IsSome(o) == o.some
IsNone(o) == ~o.some

---------------------------------------------------------------------------
(* Code points and their classes *)

\* '\u{3040}'..='\u{309f}'
IsHiragana(ch) == ch >= 12352 /\ ch <= 12447
\* '\u{30a0}'..='\u{30ff}'
IsKatakana(ch) == ch >= 12448 /\ ch <= 12543
\* '\u{4e00}'..='\u{9fff}'
IsKanji(ch) == ch >= 19968 /\ ch <= 40959

\* char::is_ascii_alphabetic
IsAsciiAlphabetic(ch) == (ch >= 65 /\ ch <= 90) \/ (ch >= 97 /\ ch <= 122)
\* char::is_ascii_alphanumeric
IsAsciiAlphanumeric(ch) == IsAsciiAlphabetic(ch) \/ (ch >= 48 /\ ch <= 57)

\* char::is_alphanumeric (Unicode Alphabetic or Numeric) on the code points the
\* model draws from: ASCII and fullwidth letters and digits, kana letters
\* (with the prolonged sound mark U+30FC), CJK unified ideographs.
IsAlphanumeric(ch) ==
    \/ IsAsciiAlphanumeric(ch)
    \/ (ch >= 65296 /\ ch <= 65305)       \* fullwidth digits
    \/ (ch >= 65313 /\ ch <= 65338)       \* fullwidth A-Z
    \/ (ch >= 65345 /\ ch <= 65370)       \* fullwidth a-z
    \/ (ch >= 12353 /\ ch <= 12438)       \* hiragana letters
    \/ (ch >= 12449 /\ ch <= 12538)       \* katakana letters
    \/ ch = 12540                         \* U+30FC
    \/ IsKanji(ch)

\* char::is_whitespace (Unicode White_Space), as used by str::trim
IsWhitespace(ch) ==
    \/ (ch >= 9 /\ ch <= 13)
    \/ ch \in {32, 133, 160, 5760, 8232, 8233, 8239, 8287, 12288}
    \/ (ch >= 8192 /\ ch <= 8202)

\* the separators kept by the script sanitizer: U+30FB U+2027 U+00B7 '-' U+30FC
BasicSymbols == {12539, 8231, 183, 45, 12540}

\* the marker glyphs skipped by the script sanitizer (19 glyphs):
\* U+3010 U+3011 U+25C7 U+25B3 U+25BD U+25B2 U+25BC U+25CB U+25CF U+25EF
\* U+25A1 U+25A0 U+25A2 U+25A3 U+25C6 U+203B U+FF0A U+2606 U+2605
MarkerGlyphs == {12304, 12305, 9671, 9651, 9661, 9650, 9660, 9675, 9679, 9711,
                 9633, 9632, 9634, 9635, 9670, 8251, 65290, 9734, 9733}

\* U+3010 and U+3011, the bracket delimiters of a headline
OpenBracket == 12304
CloseBracket == 12305

\* UTF-8 width of a code point (char::len_utf8)
Utf8Width(ch) == IF ch < 128 THEN 1 ELSE IF ch < 2048 THEN 2 ELSE IF ch < 65536 THEN 3 ELSE 4

---------------------------------------------------------------------------
(* Strings *)

RECURSIVE TrimStart(_)
TrimStart(s) ==
    IF s = << >> THEN << >>
    ELSE IF IsWhitespace(Head(s)) THEN TrimStart(Tail(s)) ELSE s

RECURSIVE TrimEnd(_)
TrimEnd(s) ==
    IF s = << >> THEN << >>
    ELSE IF IsWhitespace(s[Len(s)]) THEN TrimEnd(SubSeq(s, 1, Len(s) - 1)) ELSE s

\* str::trim
Trim(s) == TrimEnd(TrimStart(s))

\* str::len, the length in bytes
RECURSIVE ByteLen(_)
ByteLen(s) == IF s = << >> THEN 0 ELSE Utf8Width(Head(s)) + ByteLen(Tail(s))

\* str::starts_with
StartsWith(s, p) == Len(s) >= Len(p) /\ SubSeq(s, 1, Len(p)) = p

\* str::find(char) as a character index (1-based), 0 when absent
FindChar(s, ch) ==
    IF \E i \in DOMAIN s : s[i] = ch
    THEN CHOOSE i \in DOMAIN s : s[i] = ch /\ \A j \in 1..(i - 1) : s[j] # ch
    ELSE 0

---------------------------------------------------------------------------
(* ObunshaDictDatabase: the sanitizers (obunsha_dict.rs:492-542) *)

\* the match arms of clean_kana_text that push ch; text is the whole argument
KanaKeeps(ch, t) ==
    \/ IsHiragana(ch)
    \/ IsKatakana(ch)
    \/ ch = 12540
    \/ IsAsciiAlphanumeric(ch)
    \/ (ch \in {45, 95} /\ \E i \in DOMAIN t : IsAsciiAlphabetic(t[i]))

\* a sanitizer that writes a space where it drops a character
clean_kana_text_spaced(t) ==
    [i \in DOMAIN t |-> IF KanaKeeps(t[i], t) THEN t[i] ELSE 32]

clean_kana_text(t) == Trim(SelectSeq(t, LAMBDA ch : KanaKeeps(ch, t)))

\* the match arms of clean_kanji_text that push ch
KanjiKeeps(ch) ==
    \/ IsKanji(ch)
    \/ IsHiragana(ch)
    \/ IsKatakana(ch)
    \/ ch \in BasicSymbols
    \/ (ch \notin MarkerGlyphs /\ IsAlphanumeric(ch))

\* a sanitizer whose last arm pushes instead of skipping
clean_kanji_text_pushall(t) == Trim(SelectSeq(t, LAMBDA ch : ch \notin MarkerGlyphs))

clean_kanji_text(t) == Trim(SelectSeq(t, KanjiKeeps))

---------------------------------------------------------------------------
(* DataCleaner: the sanitizers (data_cleaner.rs:149-209) *)

\* the match arms of DataCleaner::clean_kana_text that push ch
CleanerKanaKeeps(ch) ==
    \/ IsHiragana(ch)
    \/ IsKatakana(ch)
    \/ ch \in BasicSymbols
    \/ (ch \notin MarkerGlyphs /\ IsAlphanumeric(ch))

DataCleaner_clean_kana_text(t) == Trim(SelectSeq(t, CleanerKanaKeeps))

\* a script sanitizer that pushes the bracket delimiters instead of skipping them
DataCleaner_clean_kanji_text_keepbrackets(t) ==
    Trim(SelectSeq(t, LAMBDA ch : KanjiKeeps(ch) \/ ch \in {OpenBracket, CloseBracket}))

DataCleaner_clean_kanji_text(t) == Trim(SelectSeq(t, KanjiKeeps))

---------------------------------------------------------------------------
(* ObunshaDictDatabase::parse_headline (obunsha_dict.rs:449-490) *)

\* headline.chars().any(|c| c >= '\u{4e00}' && c <= '\u{9fff}')
HasKanji(s) == \E i \in DOMAIN s : IsKanji(s[i])

\* the second half of parse_headline without its kanji test
HeadlineNoBrackets_anyscript(headline) ==
    IF headline # << >> THEN Some(<<headline, << >> >>) ELSE None

\* the second half of parse_headline: no usable brackets
HeadlineNoBrackets(headline) ==
    IF headline # << >> /\ ~HasKanji(headline)
    THEN Some(<<headline, << >> >>)
    ELSE None

\* parse_headline without the leading headline.trim()
parse_headline_untrimmed(t) ==
    LET headline == t
        start == FindChar(headline, OpenBracket)
        end == FindChar(headline, CloseBracket)
    IN  IF start > 0 /\ end > 0 /\ start < end /\ start > 1
        THEN Some(<<SubSeq(headline, 1, start - 1), SubSeq(headline, start + 1, end - 1)>>)
        ELSE HeadlineNoBrackets(headline)

\* start and end are 1-based character positions of the first U+3010 and the
\* first U+3011 (0: not found); the code's start_char, end_char are start - 1
\* and end - 1, and its kana_part is non-empty exactly when start > 1.
parse_headline(t) ==
    LET headline == Trim(t)
        start == FindChar(headline, OpenBracket)
        end == FindChar(headline, CloseBracket)
    IN  IF /\ start > 0
           /\ end > 0
           /\ start < end
           /\ start - 1 < Len(headline)
           /\ end - 1 < Len(headline)
           /\ SubSeq(headline, 1, start - 1) # << >>
        THEN Some(<<SubSeq(headline, 1, start - 1), SubSeq(headline, start + 1, end - 1)>>)
        ELSE HeadlineNoBrackets(headline)

---------------------------------------------------------------------------
(* Lines of a file *)

(* A line is the string  text ++ markup : `text' is a sequence of code points  *)
(* and `html', when present, is the markup block that follows it on the same   *)
(* line, given by what the HTML parser (scraper) finds in it:                  *)
(*   container   the block has a <container> element                           *)
(*   data_id     the data-id attribute of the container (Option)               *)
(*   data_type   the data-type attribute of the container (Option)             *)
(*   kana        text of the first .headword_kana element (Option)             *)
(*   hyouki      text of the first .headword_hyouki element (Option)           *)
(*   ryaku       text of the first .headword_ryaku element (Option)            *)
(*   pos         text of the first .pos_s element (Option)                     *)
(*   katsuyo     text of the first .katsuyo element (Option)                   *)
(*   means       the elements carrying a class, in document order, each with   *)
(*               its classes and its text                                      *)
(*   all_text    the text of the whole block                                   *)
(* Every markup block starts with <link rel="stylesheet", and no `text' holds  *)
(* that marker or the substring data-id= .                                     *)

TextLine(t) == [text |-> t, html |-> None]
HtmlLine(h) == [text |-> << >>, html |-> Some(h)]

\* the byte length of the marker <link rel="stylesheet" : every markup block is
\* at least this long
MarkerBytes == 22

\* "@@@LINK="
LinkPrefix == <<64, 64, 64, 76, 73, 78, 75, 61>>

\* "3011400"
SentinelId == <<51, 48, 49, 49, 52, 48, 48>>

\* line.trim().is_empty()
IsBlankLine(line) == IsNone(line.html) /\ Trim(line.text) = << >>

\* line.starts_with("@@@LINK=")
IsRedirectLine(line) ==
    IF line.text = << >> THEN FALSE ELSE StartsWith(line.text, LinkPrefix)

\* line.contains("<link rel=\"stylesheet\"")
ContainsStylesheet(line) == IsSome(line.html)

\* line.trim().len(), in bytes; exact for a line without markup, a lower bound
\* (all the code compares it with is 1 and 3) for a line with markup
TrimmedByteLen(line) ==
    IF IsSome(line.html)
    THEN ByteLen(TrimStart(line.text)) + MarkerBytes
    ELSE ByteLen(Trim(line.text))

\* line.trim().chars().count(), with the same lower bound for markup
TrimmedCharCount(line) ==
    IF IsSome(line.html)
    THEN Len(TrimStart(line.text)) + MarkerBytes
    ELSE Len(Trim(line.text))

\* the number of kanji in the line; markup blocks hold none in the model's inputs
KanjiCount(line) == Cardinality({i \in DOMAIN line.text : IsKanji(line.text[i])})

---------------------------------------------------------------------------
(* DataCleaner: boundary detection (data_cleaner.rs:211-272) *)

\* kanji_count > 0 && kanji_count as f32 / total_chars as f32 > 0.8
is_likely_kanji_only(line) ==
    IF TrimmedCharCount(line) = 0 THEN FALSE
    ELSE KanjiCount(line) > 0 /\ 5 * KanjiCount(line) > 4 * TrimmedCharCount(line)

\* the first data-id="..." of the line
extract_data_id(line) ==
    IF IsSome(line.html) THEN line.html.val.data_id ELSE None

\* is_boundary_reached without the valid_entries > 0 guard
is_boundary_reached_unguarded(self, current_line) ==
    IF extract_data_id(current_line) = Some(SentinelId) THEN FALSE
    ELSE /\ TrimmedByteLen(current_line) >= 1
         /\ TrimmedByteLen(current_line) <= 3
         /\ is_likely_kanji_only(current_line)

\* self is the DataCleaner, of which only valid_entries is read
is_boundary_reached(self, current_line) ==
    IF extract_data_id(current_line) = Some(SentinelId)
    THEN FALSE                                   \* return Ok(false)
    ELSE IF /\ TrimmedByteLen(current_line) >= 1
            /\ TrimmedByteLen(current_line) <= 3
            /\ is_likely_kanji_only(current_line)
            /\ self.valid_entries > 0
         THEN TRUE
         ELSE FALSE

\* the DataCleaner as the methods above read it
Self == [valid_entries |-> valid_entries]

---------------------------------------------------------------------------
(* DataCleaner: title extraction (data_cleaner.rs:78-147) *)

\* "entry_" and "unknown_entry"
EntryPrefix == <<101, 110, 116, 114, 121, 95>>
UnknownEntry == <<117, 110, 107, 110, 111, 119, 110, 95, 101, 110, 116, 114, 121>>

extract_title_from_html(h) ==
    LET kana0 == IF IsSome(h.kana) THEN DataCleaner_clean_kana_text(h.kana.val) ELSE << >>
        kanji_writing == IF IsSome(h.hyouki) THEN DataCleaner_clean_kanji_text(h.hyouki.val) ELSE << >>
        kana_reading ==
            IF kana0 = << >> /\ IsSome(h.ryaku)
            THEN DataCleaner_clean_kana_text(h.ryaku.val)
            ELSE kana0
    IN  IF kana_reading # << >> /\ kanji_writing # << >>
        THEN kana_reading \o <<OpenBracket>> \o kanji_writing \o <<CloseBracket>>
        ELSE IF kana_reading # << >> THEN kana_reading
        ELSE IF h.container /\ IsSome(h.data_id) THEN EntryPrefix \o h.data_id.val
        ELSE UnknownEntry

\* (title, html_content): the markup from the marker on, and its title
extract_title_and_html(line) ==
    <<extract_title_from_html(line.html.val), HtmlLine(line.html.val)>>

---------------------------------------------------------------------------
(* DataCleaner::clean_exported_dict (data_cleaner.rs:30-76): one action per   *)
(* iteration of the loop over reader.lines(), by the branch it takes          *)

NextLine == input[pos + 1]
Reading == ~finished /\ pos < Len(input)

\* if line.trim().is_empty() { continue; }
CleanBlank ==
    /\ Reading
    /\ IsBlankLine(NextLine)
    /\ pos' = pos + 1
    /\ UNCHANGED <<dbVars, input, finished, cleanerVars, textVars, importVars>>

\* if line.starts_with("@@@LINK=") { ...; self.redirect_entries += 1; continue; }
\* target is computed and dropped: nothing is inserted into redirect_map
CleanRedirect ==
    /\ Reading
    /\ ~IsBlankLine(NextLine)
    /\ IsRedirectLine(NextLine)
    /\ LET target == Trim(SubSeq(NextLine.text, Len(LinkPrefix) + 1, Len(NextLine.text)))
       IN  redirect_map' = redirect_map
    /\ redirect_entries' = redirect_entries + 1
    /\ pos' = pos + 1
    /\ UNCHANGED <<dbVars, input, finished, valid_entries, boundary_reached, output,
                   textVars, importVars>>

\* if line.contains("<link rel=\"stylesheet\"") { write title, html, blank;
\*     self.valid_entries += 1; continue; }
CleanHtml ==
    /\ Reading
    /\ ~IsBlankLine(NextLine)
    /\ ~IsRedirectLine(NextLine)
    /\ ContainsStylesheet(NextLine)
    /\ LET th == extract_title_and_html(NextLine)
       IN  output' = output \o <<TextLine(th[1]), th[2], TextLine(<< >>)>>
    /\ valid_entries' = valid_entries + 1
    /\ pos' = pos + 1
    /\ UNCHANGED <<dbVars, input, finished, redirect_map, redirect_entries, boundary_reached,
                   textVars, importVars>>

\* any other line falls through the loop body
CleanOther ==
    /\ Reading
    /\ ~IsBlankLine(NextLine)
    /\ ~IsRedirectLine(NextLine)
    /\ ~ContainsStylesheet(NextLine)
    /\ pos' = pos + 1
    /\ UNCHANGED <<dbVars, input, finished, cleanerVars, textVars, importVars>>

\* end of file: the statistics are printed and Ok(()) is returned
CleanFinish ==
    /\ ~finished
    /\ pos = Len(input)
    /\ finished' = TRUE
    /\ UNCHANGED <<dbVars, input, pos, cleanerVars, textVars, importVars>>

\* get_stats (data_cleaner.rs:313-315)
get_stats == <<valid_entries, redirect_entries, Cardinality(redirect_map)>>

---------------------------------------------------------------------------
(* ObunshaDictDatabase::parse_entry_from_html (obunsha_dict.rs:351-446) and   *)
(* extract_definition_text (obunsha_dict.rs:544-577)                          *)

MeaningSelectors ==
    <<"mean_normal", "mean_lv_2", "mean_lv_1", "mean_no_1", "mean_no_2", "mean_no_3">>

\* the trimmed, non-empty texts of the elements of nodes with class c, in order
RECURSIVE TextsWithClass(_, _)
TextsWithClass(nodes, c) ==
    IF nodes = << >> THEN << >>
    ELSE LET rest == TextsWithClass(Tail(nodes), c)
             t == Trim(Head(nodes).text)
         IN  IF c \in Head(nodes).classes /\ t # << >> THEN <<t>> \o rest ELSE rest

\* meanings after the loop over the first k selectors
RECURSIVE MeaningsUpTo(_, _)
MeaningsUpTo(nodes, k) ==
    IF k = 0 THEN << >>
    ELSE MeaningsUpTo(nodes, k - 1) \o TextsWithClass(nodes, MeaningSelectors[k])

\* Vec<String>::join(" ")
RECURSIVE JoinSpace(_)
JoinSpace(ss) ==
    IF ss = << >> THEN << >>
    ELSE IF Len(ss) = 1 THEN ss[1]
    ELSE ss[1] \o <<32>> \o JoinSpace(Tail(ss))

extract_definition_text(h) ==
    LET meanings == MeaningsUpTo(h.means, Len(MeaningSelectors))
    IN  IF meanings = << >> THEN Trim(h.all_text) ELSE JoinSpace(meanings)

\* "unknown"
UnknownType == <<117, 110, 107, 110, 111, 119, 110>>

\* CleanedKana without the test !cleaned_kana.is_empty()
CleanedKana_unchecked(elem) ==
    IF IsSome(elem) THEN Some(clean_kana_text(elem.val)) ELSE None

\* Some(cleaned) when the element is there and its cleaned text is non-empty
CleanedKana(elem) ==
    IF IsSome(elem) /\ clean_kana_text(elem.val) # << >>
    THEN Some(clean_kana_text(elem.val)) ELSE None

CleanedKanji(elem) ==
    IF IsSome(elem) /\ clean_kanji_text(elem.val) # << >>
    THEN Some(clean_kanji_text(elem.val)) ELSE None

\* Some(trimmed) when the element is there and its trimmed text is non-empty
TrimmedMarker(elem) ==
    IF IsSome(elem) /\ Trim(elem.val) # << >> THEN Some(Trim(elem.val)) ELSE None

\* html is the whole markup line; the result is an Option<ObunshaDictEntry>.
\* raw_mdx_content (title, newline, html) is determined by headword and
\* definition_html and is not carried.
\* kana_reading with the .headword_kana element tried before the headline
kana_reading_markupfirst(headline, h) ==
    LET kana1 == CleanedKana(h.kana)
        kana2 == IF IsNone(kana1) /\ IsSome(headline) THEN Some(headline.val[1]) ELSE kana1
    IN  IF IsNone(kana2) THEN CleanedKana(h.ryaku) ELSE kana2

\* the value of kana_reading at the end of parse_entry_from_html
\* (obunsha_dict.rs:376-378, 383-391, 405-412): the headline's kana, else the
\* .headword_kana element, else the .headword_ryaku element
kana_reading(headline, h) ==
    LET kana1 == IF IsSome(headline) THEN Some(headline.val[1]) ELSE None
        kana2 == IF IsNone(kana1) THEN CleanedKana(h.kana) ELSE kana1
    IN  IF IsNone(kana2) THEN CleanedKana(h.ryaku) ELSE kana2

\* the value of kanji_writing (obunsha_dict.rs:376-378, 393-401): the
\* headline's kanji (possibly the empty string), else the .headword_hyouki element
kanji_writing(headline, h) ==
    LET kanji1 == IF IsSome(headline) THEN Some(headline.val[2]) ELSE None
    IN  IF IsNone(kanji1) THEN CleanedKanji(h.hyouki) ELSE kanji1

\* parse_entry_from_html giving up when the headline does not parse
parse_entry_from_html_strict(title, html) ==
    LET h == html.html.val
        headline == parse_headline(title)
    IN  IF ~h.container \/ IsNone(h.data_id) \/ IsNone(headline) THEN None
        ELSE Some([data_id |-> h.data_id.val,
                   data_type |-> IF IsSome(h.data_type) THEN h.data_type.val ELSE UnknownType,
                   headword |-> title,
                   kana_reading |-> kana_reading(headline, h),
                   kanji_writing |-> kanji_writing(headline, h),
                   part_of_speech |-> TrimmedMarker(h.pos),
                   conjugation |-> TrimmedMarker(h.katsuyo),
                   definition_html |-> html,
                   definition_text |-> extract_definition_text(h)])

parse_entry_from_html(title, html) ==
    LET h == html.html.val
        headline == parse_headline(title)
    IN  IF ~h.container \/ IsNone(h.data_id) THEN None
        ELSE Some([data_id |-> h.data_id.val,
                   data_type |-> IF IsSome(h.data_type) THEN h.data_type.val ELSE UnknownType,
                   headword |-> title,
                   kana_reading |-> kana_reading(headline, h),
                   kanji_writing |-> kanji_writing(headline, h),
                   part_of_speech |-> TrimmedMarker(h.pos),
                   conjugation |-> TrimmedMarker(h.katsuyo),
                   definition_html |-> html,
                   definition_text |-> extract_definition_text(h)])

---------------------------------------------------------------------------
(* The database behind a connection.  conn is a record of                     *)
(*   created   the table exists (CREATE TABLE IF NOT EXISTS has run)          *)
(*   rows      the rows of the table, each [id, entry]                        *)
(*   seq       the largest id given so far (sqlite_sequence of the            *)
(*             AUTOINCREMENT key)                                             *)
(* ObunshaDictDatabase keeps the table obunsha_kokugo_dict, Database the      *)
(* table dictionary_entries; a run uses one of the two.  A call returns       *)
(* Ok(v) or Err.                                                              *)

Ok(v) == [ok |-> TRUE, val |-> v]
Err == [ok |-> FALSE]

\* Connection::open on a file that does not exist yet
Connection_open == [created |-> FALSE, rows |-> {}, seq |-> 0]

\* initialize: CREATE TABLE IF NOT EXISTS and CREATE INDEX IF NOT EXISTS
initialize(c) == [c EXCEPT !.created = TRUE]

\* the rows in conflict with data_id d (data_id TEXT NOT NULL UNIQUE)
RowsWithDataId(c, d) == {r \in c.rows : r.entry.data_id = d}

\* INSERT of one row: id INTEGER PRIMARY KEY AUTOINCREMENT gives the next id
InsertRow(c, e) ==
    [c EXCEPT !.rows = @ \cup {[id |-> c.seq + 1, entry |-> e]}, !.seq = @ + 1]

\* INSERT OR REPLACE with a plain INSERT and no UNIQUE constraint
InsertOrReplace_duplicating(c, e) == InsertRow(c, e)

\* INSERT OR REPLACE: the rows in conflict are deleted, then the row is inserted
InsertOrReplace(c, e) ==
    InsertRow([c EXCEPT !.rows = @ \ RowsWithDataId(c, e.data_id)], e)

\* for entry in entries { stmt.execute(...)?; } followed by tx.commit()
RECURSIVE insert_entries_batch(_, _)
insert_entries_batch(c, slice) ==
    IF slice = << >> THEN c
    ELSE insert_entries_batch(InsertOrReplace(c, Head(slice)), Tail(slice))

\* ObunshaDictDatabase::insert_entry: a plain INSERT, refused by the UNIQUE
\* constraint when a row has the entry's data_id
insert_entry_accepts(c, e) == c.created /\ RowsWithDataId(c, e.data_id) = {}
insert_entry(c, e) == IF insert_entry_accepts(c, e) THEN InsertRow(c, e) ELSE c

\* Database::insert_entry (database.rs:67-86) without the insertion
Database_insert_entry_dropping(c, e) == [c EXCEPT !.seq = @ + 1]

\* Database::insert_entry (database.rs:67-86): dictionary_entries has no
\* UNIQUE column
Database_insert_entry(c, e) == InsertRow(c, e)

\* Database::get_entry_count: SELECT COUNT(*)
Database_get_entry_count(c) == Cardinality(c.rows)

\* Database::clear_all_entries: DELETE FROM dictionary_entries, and the
\* sqlite_sequence row of the table
Database_clear_all_entries(c) == [c EXCEPT !.rows = {}, !.seq = 0]

---------------------------------------------------------------------------
(* ObunshaDictDatabase::import_from_cleaned_data (obunsha_dict.rs:297-349):   *)
(* one action per iteration of the loop over lines, by the branch it takes.   *)
(* An element of entries is [entry, line]: the entry and, for the properties  *)
(* only, the number of the input line it was assembled from.  The function is *)
(* called on a database whose table exists (main.rs:173-179), so the          *)
(* statements of insert_entries_batch are accepted.                           *)

\* entries.insert(0, entry) instead of entries.push(entry)
PushFront(buf, e) == <<e>> \o buf

\* entries.push(entry)
Push(buf, e) == Append(buf, e)

\* the entries of a buffer, without the line numbers
EntriesOf(buf) == [i \in DOMAIN buf |-> buf[i].entry]

\* the blank-line branch without current_title = None
ImportBlank_keeping ==
    /\ Reading
    /\ IsBlankLine(NextLine)
    /\ pos' = pos + 1
    /\ UNCHANGED <<dbVars, input, finished, importVars, textVars, cleanerVars>>

\* if line.trim().is_empty() { current_title = None; continue; }
ImportBlank ==
    /\ Reading
    /\ IsBlankLine(NextLine)
    /\ current_title' = None
    /\ pos' = pos + 1
    /\ UNCHANGED <<dbVars, input, finished, entries, processed_count, batches,
                   textVars, cleanerVars>>

\* a markup line with a pending title that assembles to an entry: the entry is
\* pushed, and the buffer is flushed when it has reached the batch size
ImportEntry ==
    /\ Reading
    /\ ~IsBlankLine(NextLine)
    /\ ContainsStylesheet(NextLine)
    /\ IsSome(current_title)
    /\ IsSome(parse_entry_from_html(current_title.val, NextLine))
    /\ LET entry == parse_entry_from_html(current_title.val, NextLine).val
           pushed == Push(entries, [entry |-> entry, line |-> pos + 1])
       IN  IF Len(pushed) >= BatchSize
           THEN /\ conn' = insert_entries_batch(conn, EntriesOf(pushed))
                /\ inserted' = inserted \o EntriesOf(pushed)
                /\ batches' = Append(batches, pushed)
                /\ entries' = << >>
           ELSE /\ entries' = pushed
                /\ UNCHANGED <<batches, dbVars>>
    /\ processed_count' = processed_count + 1
    /\ current_title' = None
    /\ pos' = pos + 1
    /\ UNCHANGED <<input, finished, textVars, cleanerVars>>

\* a markup line with a pending title that does not assemble (no container or
\* no data-id): the title is taken and nothing is pushed
ImportUnassemblable ==
    /\ Reading
    /\ ~IsBlankLine(NextLine)
    /\ ContainsStylesheet(NextLine)
    /\ IsSome(current_title)
    /\ IsNone(parse_entry_from_html(current_title.val, NextLine))
    /\ current_title' = None
    /\ pos' = pos + 1
    /\ UNCHANGED <<dbVars, input, finished, entries, processed_count, batches,
                   textVars, cleanerVars>>

\* a markup line with no pending title
ImportMarkupWithoutTitle ==
    /\ Reading
    /\ ~IsBlankLine(NextLine)
    /\ ContainsStylesheet(NextLine)
    /\ IsNone(current_title)
    /\ pos' = pos + 1
    /\ UNCHANGED <<dbVars, input, finished, importVars, textVars, cleanerVars>>

\* the title branch keeping a title that is already pending
ImportTitle_keepfirst ==
    /\ Reading
    /\ ~IsBlankLine(NextLine)
    /\ ~ContainsStylesheet(NextLine)
    /\ current_title' = IF IsSome(current_title) THEN current_title ELSE Some(NextLine.text)
    /\ pos' = pos + 1
    /\ UNCHANGED <<dbVars, input, finished, entries, processed_count, batches,
                   textVars, cleanerVars>>

\* else { current_title = Some(line); }
ImportTitle ==
    /\ Reading
    /\ ~IsBlankLine(NextLine)
    /\ ~ContainsStylesheet(NextLine)
    /\ current_title' = Some(NextLine.text)
    /\ pos' = pos + 1
    /\ UNCHANGED <<dbVars, input, finished, entries, processed_count, batches,
                   textVars, cleanerVars>>

\* the end of the function without the insertion of the remaining entries
ImportFinish_noflush ==
    /\ ~finished
    /\ pos = Len(input)
    /\ finished' = TRUE
    /\ result' = Ok(processed_count)
    /\ UNCHANGED <<input, pos, importVars, dbVars, text, markup, called, again,
                   cleanerVars>>

\* end of file: the remaining entries are inserted and Ok(processed_count) is
\* returned
ImportFinish ==
    /\ ~finished
    /\ pos = Len(input)
    /\ IF entries # << >>
       THEN /\ conn' = insert_entries_batch(conn, EntriesOf(entries))
            /\ inserted' = inserted \o EntriesOf(entries)
            /\ batches' = Append(batches, entries)
       ELSE UNCHANGED <<batches, dbVars>>
    /\ finished' = TRUE
    /\ result' = Ok(processed_count)
    /\ UNCHANGED <<input, pos, entries, current_title, processed_count,
                   text, markup, called, again, cleanerVars>>

---------------------------------------------------------------------------
(* Inputs of the text helpers *)

\* all strings over alphabet A of at most n code points
StringsUpTo(A, n) == UNION {[1..k -> A] : k \in 0..n}

\* hiragana A (U+3042), U+30FC, kanji U+611B, 'a', '-', '_', ' ', '!',
\* U+00B7, U+3010, U+2605, fullwidth C (U+FF23)
SanitizerAlphabet == {12354, 12540, 24859, 97, 45, 95, 32, 33, 183, 12304, 9733, 65315}

\* hiragana A (U+3042), kanji U+611B, U+3010, U+3011, ' '
HeadlineAlphabet == {12354, 24859, OpenBracket, CloseBracket, 32}

\* the headlines "あい【愛】" and "ば【】"
HeadlineAi == <<12354, 12356, OpenBracket, 24859, CloseBracket>>
HeadlineBa == <<12400, OpenBracket, CloseBracket>>

SanitizerInputs == StringsUpTo(SanitizerAlphabet, MaxTextLen)
\* the headlines "ＣＤ" (fullwidth letters) and "愛あい"
HeadlineCD == <<65315, 65316>>
HeadlineKanjiAi == <<24859, 12354, 12356>>
\* the headline "あ】い【愛】": a close bracket before the first open bracket
HeadlineStray == <<12354, CloseBracket, 12356, OpenBracket, 24859, CloseBracket>>
HeadlineInputs ==
    StringsUpTo(HeadlineAlphabet, MaxHeadLen)
        \cup {HeadlineAi, HeadlineBa, HeadlineCD, HeadlineKanjiAi, HeadlineStray}

---------------------------------------------------------------------------
(* Initial values of the parts a specification does not use *)

NoTextCall ==
    text = << >> /\ markup = None /\ called = "none" /\ result = None /\ again = None

NoFile == input = << >> /\ pos = 0 /\ finished = FALSE

\* DataCleaner::new (data_cleaner.rs:19-26)
DataCleaner_new ==
    /\ redirect_map = {}
    /\ valid_entries = 0
    /\ redirect_entries = 0
    /\ boundary_reached = FALSE
    /\ output = << >>

\* no connection is used: the database file does not exist yet
NoDatabase == conn = Connection_open /\ inserted = << >>

\* the locals of import_from_cleaned_data before its loop (obunsha_dict.rs:307-309)
ImportLocals ==
    /\ entries = << >>
    /\ current_title = None
    /\ processed_count = 0
    /\ batches = << >>

---------------------------------------------------------------------------
(* One call of a sanitizer, and the sanitizer applied to what it returned *)

CallCleanKanaText ==
    /\ called = "none"
    /\ called' = "clean_kana_text"
    /\ result' = Some(clean_kana_text(text))
    /\ again' = Some(clean_kana_text(clean_kana_text(text)))
    /\ UNCHANGED <<dbVars, text, markup, fileVars, cleanerVars, importVars>>

CallCleanKanjiText ==
    /\ called = "none"
    /\ called' = "clean_kanji_text"
    /\ result' = Some(clean_kanji_text(text))
    /\ again' = Some(clean_kanji_text(clean_kanji_text(text)))
    /\ UNCHANGED <<dbVars, text, markup, fileVars, cleanerVars, importVars>>

CallCleanerCleanKanaText ==
    /\ called = "none"
    /\ called' = "DataCleaner::clean_kana_text"
    /\ result' = Some(DataCleaner_clean_kana_text(text))
    /\ again' = Some(DataCleaner_clean_kana_text(DataCleaner_clean_kana_text(text)))
    /\ UNCHANGED <<dbVars, text, markup, fileVars, cleanerVars, importVars>>

InitSanitize ==
    /\ text \in SanitizerInputs
    /\ markup = None /\ called = "none" /\ result = None /\ again = None
    /\ NoFile /\ DataCleaner_new /\ ImportLocals /\ NoDatabase

NextSanitize == CallCleanKanaText \/ CallCleanKanjiText \/ CallCleanerCleanKanaText

SpecSanitize == InitSanitize /\ [][NextSanitize]_vars

---------------------------------------------------------------------------
(* One call of parse_headline *)

CallParseHeadline ==
    /\ called = "none"
    /\ called' = "parse_headline"
    /\ result' = parse_headline(text)
    /\ UNCHANGED <<dbVars, text, markup, again, fileVars, cleanerVars, importVars>>

InitHeadline ==
    /\ text \in HeadlineInputs
    /\ markup = None /\ called = "none" /\ result = None /\ again = None
    /\ NoFile /\ DataCleaner_new /\ ImportLocals /\ NoDatabase

NextHeadline == CallParseHeadline

SpecHeadline == InitHeadline /\ [][NextHeadline]_vars

---------------------------------------------------------------------------
(* Properties of the sanitizers *)

Sanitizers == {"clean_kana_text", "clean_kanji_text", "DataCleaner::clean_kana_text"}

\* a is obtained from b by deleting characters
RECURSIVE IsSubsequence(_, _)
IsSubsequence(a, b) ==
    IF a = << >> THEN TRUE
    ELSE IF b = << >> THEN FALSE
    ELSE IF Head(a) = Head(b) THEN IsSubsequence(Tail(a), Tail(b))
    ELSE IsSubsequence(a, Tail(b))

AllChars(s, P(_)) == \A i \in DOMAIN s : P(s[i])

\* C8: each sanitizer is idempotent (applied to its own result it returns that
\* result) and non-inventive (its result is a subsequence of its argument).
C8_SanitizeIdempotent ==
    called \in Sanitizers =>
        /\ again = result
        /\ IsSubsequence(result.val, text)

\* a sanitizer call that dropped some characters and kept others
C8_Witness ==
    /\ called = "clean_kana_text"
    /\ Len(result.val) > 0
    /\ Len(result.val) < Len(text)
    /\ again = result

\* the character classes of the classifier: Kana is hiragana, katakana, the
\* prolonged sound mark and the separator glyphs; Kanji is U+4E00..U+9FFF;
\* AsciiAlnum is ASCII letters and digits; DecorativeGlyph is the marker set.
ClassKana(ch) == IsHiragana(ch) \/ IsKatakana(ch) \/ ch \in BasicSymbols
ClassKanji(ch) == IsKanji(ch)
ClassAsciiAlnum(ch) == IsAsciiAlphanumeric(ch)
ClassDecorative(ch) == ch \in MarkerGlyphs

---------------------------------------------------------------------------
(* Properties of parse_headline *)

CountOf(s, ch) == Cardinality({i \in DOMAIN s : s[i] = ch})

\* t is r U+3010 s U+3011 with r non-empty and no bracket in r or s
IsBracketedForm(t) ==
    /\ Len(t) >= 3
    /\ t[Len(t)] = CloseBracket
    /\ CountOf(t, OpenBracket) = 1
    /\ CountOf(t, CloseBracket) = 1
    /\ FindChar(t, OpenBracket) > 1

FormReading(t) == SubSeq(t, 1, FindChar(t, OpenBracket) - 1)
FormScript(t) == SubSeq(t, FindChar(t, OpenBracket) + 1, Len(t) - 1)

\* C10 as stated: for every headline r U+3010 s U+3011 with r non-empty,
\* parse_headline returns Some((r, s)).
C10_Original ==
    (called = "parse_headline" /\ IsBracketedForm(text)) =>
        result = Some(<<FormReading(text), FormScript(text)>>)

\* C10 amended: for every headline r U+3010 s U+3011 where r without its leading
\* whitespace is non-empty, parse_headline returns Some((r', s)) with r' that
\* trimmed r and s the text between the brackets (possibly empty); the
\* headlines "あい【愛】" and "ば【】" give ("あい", "愛") and ("ば", "").
C10_BracketedHeadline ==
    called = "parse_headline" =>
        /\ (IsBracketedForm(text) /\ TrimStart(FormReading(text)) # << >>) =>
               result = Some(<<TrimStart(FormReading(text)), FormScript(text)>>)
        /\ text = HeadlineAi => result = Some(<<(<<12354, 12356>>), (<<24859>>)>>)
        /\ text = HeadlineBa => result = Some(<<(<<12400>>), << >> >>)

\* a bracketed headline whose reading part has leading whitespace was parsed
C10_Witness ==
    /\ called = "parse_headline"
    /\ IsBracketedForm(text)
    /\ TrimStart(FormReading(text)) # FormReading(text)
    /\ IsSome(result)
    /\ result.val[1] = TrimStart(FormReading(text))

\* t holds neither U+3010 nor U+3011
IsUnbracketed(t) == CountOf(t, OpenBracket) = 0 /\ CountOf(t, CloseBracket) = 0

\* C11 as stated: for every non-empty headline with neither bracket,
\* parse_headline returns Some((whole headline, "")) when the headline has no
\* kanji code point and None when it has one.
C11_Original ==
    (called = "parse_headline" /\ text # << >> /\ IsUnbracketed(text)) =>
        result = IF HasKanji(text) THEN None ELSE Some(<<text, << >> >>)

\* C11 amended: for every headline with neither bracket that is non-empty once
\* its leading and trailing whitespace is removed, parse_headline returns
\* Some((that trimmed headline, "")) when it has no kanji code point and None
\* when it has one; a headline of whitespace only gives None; "ＣＤ" gives
\* ("ＣＤ", "") and "愛あい" gives None.
C11_UnbracketedHeadline ==
    called = "parse_headline" =>
        /\ (IsUnbracketed(text) /\ Trim(text) # << >>) =>
               result = IF HasKanji(text) THEN None ELSE Some(<<Trim(text), << >> >>)
        /\ (IsUnbracketed(text) /\ Trim(text) = << >>) => result = None
        /\ text = HeadlineCD => result = Some(<<HeadlineCD, << >> >>)
        /\ text = HeadlineKanjiAi => result = None

\* an un-bracketed headline with a kanji code point was refused
C11_Witness ==
    /\ called = "parse_headline"
    /\ IsUnbracketed(text)
    /\ Trim(text) # << >>
    /\ HasKanji(text)
    /\ result = None

\* C12: whenever parse_headline returns Some((reading, script)), reading is
\* non-empty and holds only kana and ASCII-alphanumeric code points, and script
\* holds only kanji, kana and the allowed separators (no bracket delimiter,
\* marker glyph or whitespace in either field).
C12_HeadlineInvariant ==
    (called = "parse_headline" /\ IsSome(result)) =>
        /\ result.val[1] # << >>
        /\ AllChars(result.val[1], LAMBDA ch : ClassKana(ch) \/ ClassAsciiAlnum(ch))
        /\ AllChars(result.val[2],
                    LAMBDA ch : ClassKanji(ch) \/ ClassKana(ch) \/ ch \in BasicSymbols)

---------------------------------------------------------------------------
(* The files the runs read *)

\* a lexicon record: data-id "1", reading "あ", script "【愛】"
MarkupAi ==
    [container |-> TRUE, data_id |-> Some(<<49>>), data_type |-> Some(<<50>>),
     kana |-> Some(<<12354>>),
     hyouki |-> Some(<<OpenBracket, 24859, CloseBracket>>), ryaku |-> None,
     pos |-> Some(<<21517>>), katsuyo |-> None,
     means |-> <<[classes |-> {"mean_normal"}, text |-> <<24859>>]>>,
     all_text |-> <<12354, OpenBracket, 24859, CloseBracket, 21517, 24859>>]

\* the record with the sentinel data-id "3011400", reading "ヴォ"
MarkupSentinel ==
    [container |-> TRUE, data_id |-> Some(SentinelId), data_type |-> None,
     kana |-> Some(<<12532, 12457>>), hyouki |-> None, ryaku |-> None,
     pos |-> None, katsuyo |-> None, means |-> << >>, all_text |-> <<12532, 12457>>]

\* a markup block without a <container> element
MarkupNoContainer ==
    [container |-> FALSE, data_id |-> None, data_type |-> None,
     kana |-> Some(<<12354>>), hyouki |-> None, ryaku |-> None,
     pos |-> None, katsuyo |-> None, means |-> << >>, all_text |-> <<12354>>]

BlankLine == TextLine(<< >>)
\* "@@@LINK=あ"
RedirectLine == TextLine(LinkPrefix \o <<12354>>)
\* "愛" and "漢字"
OneKanjiLine == TextLine(<<24859>>)
TwoKanjiLine == TextLine(<<28450, 23383>>)
\* "あ【愛】"
TitleLine == TextLine(<<12354, OpenBracket, 24859, CloseBracket>>)

RawLines == {BlankLine, RedirectLine, HtmlLine(MarkupAi), HtmlLine(MarkupSentinel),
             OneKanjiLine, TwoKanjiLine, TitleLine}

FilesUpTo(L, n) == UNION {[1..k -> L] : k \in 0..n}

---------------------------------------------------------------------------
(* A run of clean_exported_dict over a file *)

Init ==
    /\ input \in FilesUpTo(RawLines, MaxLines)
    /\ pos = 0
    /\ finished = FALSE
    /\ DataCleaner_new
    /\ NoTextCall
    /\ ImportLocals
    /\ NoDatabase

Next == CleanBlank \/ CleanRedirect \/ CleanHtml \/ CleanOther \/ CleanFinish

Spec == Init /\ [][Next]_vars

---------------------------------------------------------------------------
(* Properties of the cleaning run *)

\* the line is one clean_exported_dict emits as an entry
IsEntryLine(line) ==
    ~IsBlankLine(line) /\ ~IsRedirectLine(line) /\ ContainsStylesheet(line)

\* valid entries among the first k lines of the input
ValidIn(k) == Cardinality({i \in 1..k : IsEntryLine(input[i])})

\* a line of exactly two code points, both kanji
IsTwoKanji(line) ==
    /\ IsNone(line.html)
    /\ Len(line.text) = 2
    /\ \A i \in 1..2 : IsKanji(line.text[i])

\* N >= 1 lexicon records followed by one two-kanji line
IsLexiconThenKanji(f) ==
    /\ Len(f) >= 2
    /\ \A i \in 1..(Len(f) - 1) : IsEntryLine(f[i])
    /\ IsTwoKanji(f[Len(f)])

\* line i of the input is a confirmation point of the boundary: the detector,
\* asked about it with the entries counted so far, answers that the boundary
\* is reached
IsConfirmationPoint(i) ==
    is_boundary_reached([valid_entries |-> ValidIn(i - 1)], input[i])

\* line i of the input is the record with the sentinel data-id
IsSentinelRecord(i) ==
    IsEntryLine(input[i]) /\ extract_data_id(input[i]) = Some(SentinelId)

\* C1: after a file of N >= 1 lexicon records followed by a two-kanji line has
\* been processed, the boundary is confirmed (the flag is set, or the detector
\* answers that the boundary is reached at the kanji line), exactly N entries
\* were emitted and the kanji line was not.
C1_BoundaryByKanjiLine ==
    (finished /\ IsLexiconThenKanji(input)) =>
        /\ \/ boundary_reached
           \/ IsConfirmationPoint(Len(input))
        /\ valid_entries = Len(input) - 1
        /\ Len(output) = 3 * (Len(input) - 1)

\* C2: once the boundary is confirmed it stays confirmed, and past the
\* confirmation point no record is emitted: the valid-entry counter and the
\* output stop growing.
C2_NothingAfterBoundary ==
    [][ /\ boundary_reached => boundary_reached'
        /\ (boundary_reached \/ \E i \in 1..pos : IsConfirmationPoint(i)) =>
               (valid_entries' = valid_entries /\ output' = output) ]_vars

\* C3: the record with the sentinel data-id is itself emitted, and no record
\* after it is: once it has been processed the valid-entry counter is the
\* number of entries up to and including it.
C3_SentinelTransition ==
    \A i \in 1..pos : IsSentinelRecord(i) => valid_entries = ValidIn(i)

\* C4: the kanji-line heuristic never answers that the boundary is reached
\* while no valid entry has been emitted: whatever the line, if the detector
\* confirms in the current state then valid_entries >= 1.
C4_NoConfirmBeforeFirstEntry ==
    \A line \in RawLines : is_boundary_reached(Self, line) => valid_entries >= 1

\* the next line is a short kanji line and the detector confirms on it
C4_Witness ==
    /\ Reading
    /\ valid_entries >= 1
    /\ NextLine = OneKanjiLine
    /\ is_boundary_reached(Self, NextLine)

\* title line, markup line, blank line, redirect marker
IsEndToEndStream(f) ==
    /\ Len(f) = 4
    /\ ~IsBlankLine(f[1]) /\ ~IsRedirectLine(f[1]) /\ ~ContainsStylesheet(f[1])
    /\ IsEntryLine(f[2])
    /\ IsBlankLine(f[3])
    /\ IsRedirectLine(f[4])

\* C5: the stream (title line + markup line, blank line, redirect marker)
\* yields one entry and one redirect entry, with counters valid = 1 and
\* redirect = 1.
C5_EndToEnd ==
    (finished /\ IsEndToEndStream(input)) =>
        /\ Len(output) = 3
        /\ Cardinality(redirect_map) = 1
        /\ get_stats[1] = 1
        /\ get_stats[2] = 1

\* C6: every redirect record produces one redirect entry: the number of
\* mappings recorded equals the redirect counter.
C6_RedirectRecorded ==
    get_stats[3] = get_stats[2]

---------------------------------------------------------------------------
(* A run of import_from_cleaned_data over a file *)

\* "愛" is a title line that parse_headline refuses
CleanedLines ==
    {BlankLine, TitleLine, OneKanjiLine, HtmlLine(MarkupAi), HtmlLine(MarkupNoContainer)}

InitImport ==
    /\ input \in FilesUpTo(CleanedLines, MaxImportLines)
    /\ pos = 0
    /\ finished = FALSE
    /\ ImportLocals
    /\ NoTextCall
    /\ DataCleaner_new
    /\ conn = initialize(Connection_open)
    /\ inserted = << >>

NextImport ==
    \/ ImportBlank
    \/ ImportEntry
    \/ ImportUnassemblable
    \/ ImportMarkupWithoutTitle
    \/ ImportTitle
    \/ ImportFinish

SpecImport == InitImport /\ [][NextImport]_vars

\* the concatenation of a sequence of sequences
RECURSIVE Flatten(_)
Flatten(ss) == IF ss = << >> THEN << >> ELSE Head(ss) \o Flatten(Tail(ss))

\* every entry handed to the storage layer so far, in the order it was handed
\* over, followed by the entries still buffered (the final insert leaves the
\* buffer as it is)
Emitted == IF finished THEN Flatten(batches) ELSE Flatten(batches) \o entries

\* C7: entries are emitted, and passed to insert_entries_batch, in input order,
\* within a batch and across batches: in the sequence of emitted entries the
\* input lines they come from are strictly increasing, and when the import has
\* returned every entry has been passed on.
C7_InputOrder ==
    /\ \A i, j \in DOMAIN Emitted : i < j => Emitted[i].line < Emitted[j].line
    /\ Len(Emitted) = processed_count
    /\ finished => Len(Flatten(batches)) = processed_count

\* the import has returned after passing on two batches, the first of them
\* holding two entries
C7_Witness ==
    /\ finished
    /\ Len(batches) = 2
    /\ Len(batches[1]) = 2
    /\ batches[1][1].line < batches[1][2].line
    /\ batches[1][2].line < batches[2][1].line


---------------------------------------------------------------------------
(* One call of parse_entry_from_html on a title and a markup line *)

\* the titles "あ【愛】", "い", "愛", "漢字"
EntryTitles == {<<12354, OpenBracket, 24859, CloseBracket>>, <<12356>>, <<24859>>,
                <<28450, 23383>>}

\* texts of a .headword_kana element: absent, "あ", "か", "★"
KanaMarkers == {None, Some(<<12354>>), Some(<<12363>>), Some(<<9733>>)}
\* texts of a .headword_ryaku element: absent, "CD", " "
RyakuMarkers == {None, Some(<<67, 68>>), Some(<<32>>)}
\* texts of a .headword_hyouki element: absent, "【愛】"
HyoukiMarkers == {None, Some(<<OpenBracket, 24859, CloseBracket>>)}
\* a markup block has a container with a data-id ("1"), a container without
\* one, or no container
ContainerKinds == {<<TRUE, Some(<<49>>)>>, <<TRUE, None>>, <<FALSE, None>>}

MarkerText(elem) == IF IsSome(elem) THEN elem.val ELSE << >>

EntryMarkups ==
    {[container |-> c[1], data_id |-> c[2], data_type |-> Some(<<50>>),
      kana |-> k, hyouki |-> hy, ryaku |-> r, pos |-> None, katsuyo |-> None,
      means |-> << >>,
      all_text |-> MarkerText(k) \o MarkerText(hy) \o MarkerText(r)] :
        c \in ContainerKinds, k \in KanaMarkers, hy \in HyoukiMarkers, r \in RyakuMarkers}

CallParseEntryFromHtml ==
    /\ called = "none"
    /\ IsSome(markup)
    /\ called' = "parse_entry_from_html"
    /\ result' = parse_entry_from_html(text, markup.val)
    /\ UNCHANGED <<dbVars, text, markup, again, fileVars, cleanerVars, importVars>>

InitEntry ==
    /\ text \in EntryTitles
    /\ markup \in {Some(HtmlLine(h)) : h \in EntryMarkups}
    /\ called = "none" /\ result = None /\ again = None
    /\ NoFile /\ DataCleaner_new /\ ImportLocals /\ NoDatabase

NextEntry == CallParseEntryFromHtml

SpecEntry == InitEntry /\ [][NextEntry]_vars

---------------------------------------------------------------------------
(* Properties of parse_entry_from_html *)

\* the markup block of the call
CalledMarkup == markup.val.html.val

\* the sanitized text of a marker element, empty when the element is absent
SanitizedMarker(elem) == clean_kana_text(MarkerText(elem))

\* C13: when the title parses to a headline reading and the markup has a
\* .headword_kana element with a different text, the entry's kana_reading is
\* the headline's reading, not the markup's.
C13_ReadingPriority ==
    (/\ called = "parse_entry_from_html"
     /\ IsSome(result)
     /\ IsSome(parse_headline(text))
     /\ IsSome(CalledMarkup.kana)
     /\ CalledMarkup.kana.val # parse_headline(text).val[1]) =>
        result.val.kana_reading = Some(parse_headline(text).val[1])

\* an entry was assembled from a title with a reading and a markup whose
\* reading element cleans to another, non-empty text
C13_Witness ==
    /\ called = "parse_entry_from_html"
    /\ IsSome(result)
    /\ IsSome(parse_headline(text))
    /\ SanitizedMarker(CalledMarkup.kana) # << >>
    /\ SanitizedMarker(CalledMarkup.kana) # parse_headline(text).val[1]
    /\ result.val.kana_reading = Some(parse_headline(text).val[1])

\* C14: when the headline does not parse, the entry's kana_reading is the
\* sanitized text of the .headword_kana element if that is non-empty, otherwise
\* the sanitized text of the .headword_ryaku element if that is non-empty,
\* otherwise None; the abbreviation is never used when the reading element
\* yields non-empty text.
C14_ReadingFallback ==
    (/\ called = "parse_entry_from_html"
     /\ IsSome(result)
     /\ IsNone(parse_headline(text))) =>
        result.val.kana_reading =
            IF SanitizedMarker(CalledMarkup.kana) # << >>
            THEN Some(SanitizedMarker(CalledMarkup.kana))
            ELSE IF SanitizedMarker(CalledMarkup.ryaku) # << >>
            THEN Some(SanitizedMarker(CalledMarkup.ryaku))
            ELSE None

\* the headline did not parse, the reading element is there but cleans to
\* nothing, and the reading came from the abbreviation element
C14_Witness ==
    /\ called = "parse_entry_from_html"
    /\ IsSome(result)
    /\ IsNone(parse_headline(text))
    /\ IsSome(CalledMarkup.kana)
    /\ SanitizedMarker(CalledMarkup.kana) = << >>
    /\ SanitizedMarker(CalledMarkup.ryaku) # << >>
    /\ result.val.kana_reading = Some(SanitizedMarker(CalledMarkup.ryaku))

---------------------------------------------------------------------------
(* Calls on an ObunshaDictDatabase: initialize, insert_entries_batch and      *)
(* insert_entry in any order, on a connection opened on a new file            *)

\* an ObunshaDictEntry with the given data_id and headword
SampleEntry(id, word) ==
    [data_id |-> id, data_type |-> <<50>>, headword |-> word,
     kana_reading |-> Some(word), kanji_writing |-> None,
     part_of_speech |-> None, conjugation |-> None,
     definition_html |-> HtmlLine(MarkupAi), definition_text |-> <<24859>>]

\* data_id "1" with headword "あ", data_id "1" with headword "い", data_id "2"
\* with headword "あ"
EntryInputs == {SampleEntry(<<49>>, <<12354>>), SampleEntry(<<49>>, <<12356>>),
                SampleEntry(<<50>>, <<12354>>)}

\* the slices passed to insert_entries_batch
BatchInputs == UNION {[1..k -> EntryInputs] : k \in 0..MaxBatchLen}

CallInitialize ==
    /\ called' = "initialize"
    /\ conn' = initialize(conn)
    /\ result' = Ok(<< >>)
    /\ UNCHANGED <<inserted, text, markup, again, fileVars, cleanerVars, importVars>>

\* tx.prepare fails when the table does not exist; otherwise every statement
\* is accepted and Ok(entries.len()) is returned
CallInsertEntriesBatch ==
    \E slice \in BatchInputs :
        /\ Len(inserted) + Len(slice) <= MaxInserted
        /\ called' = "insert_entries_batch"
        /\ IF conn.created
           THEN /\ conn' = insert_entries_batch(conn, slice)
                /\ inserted' = inserted \o slice
                /\ result' = Ok(Len(slice))
           ELSE /\ result' = Err
                /\ UNCHANGED dbVars
        /\ UNCHANGED <<text, markup, again, fileVars, cleanerVars, importVars>>

\* Ok(row_id) when the row is accepted, Err when the table does not exist or
\* the UNIQUE constraint refuses the row
CallInsertEntry ==
    \E e \in EntryInputs :
        /\ Len(inserted) < MaxInserted
        /\ called' = "insert_entry"
        /\ IF insert_entry_accepts(conn, e)
           THEN /\ conn' = insert_entry(conn, e)
                /\ inserted' = Append(inserted, e)
                /\ result' = Ok(conn.seq + 1)
           ELSE /\ result' = Err
                /\ UNCHANGED dbVars
        /\ UNCHANGED <<text, markup, again, fileVars, cleanerVars, importVars>>

InitObunshaDb ==
    /\ NoDatabase
    /\ NoTextCall /\ NoFile /\ DataCleaner_new /\ ImportLocals

NextObunshaDb == CallInitialize \/ CallInsertEntriesBatch \/ CallInsertEntry

SpecObunshaDb == InitObunshaDb /\ [][NextObunshaDb]_vars

\* the positions of inserted holding an entry with data_id d
InsertedAt(d) == {i \in DOMAIN inserted : inserted[i].data_id = d}

\* the greatest element of a non-empty set of numbers
Greatest(S) == CHOOSE m \in S : \A n \in S : n <= m

\* C15: after any sequence of insert_entries_batch calls the table holds at
\* most one row per data_id, exactly the data_ids inserted have a row, each
\* row carries the fields of the most recently inserted entry with its
\* data_id, and the call succeeds (it does not fail on an existing data_id).
C15_UpsertUniqueness ==
    /\ \A r1, r2 \in conn.rows : r1.entry.data_id = r2.entry.data_id => r1 = r2
    /\ \A r \in conn.rows :
           /\ InsertedAt(r.entry.data_id) # {}
           /\ r.entry = inserted[Greatest(InsertedAt(r.entry.data_id))]
    /\ \A i \in DOMAIN inserted : RowsWithDataId(conn, inserted[i].data_id) # {}
    /\ called = "insert_entries_batch" => result.ok = conn.created

\* insert_entries_batch succeeded on an entry whose data_id had a row with
\* other field values, and the table holds one row with that data_id
C15_Witness ==
    /\ called = "insert_entries_batch"
    /\ result.ok
    /\ \E i, j \in DOMAIN inserted :
           /\ i < j
           /\ inserted[i].data_id = inserted[j].data_id
           /\ inserted[i] # inserted[j]
           /\ j = Greatest(InsertedAt(inserted[j].data_id))
           /\ Cardinality(RowsWithDataId(conn, inserted[j].data_id)) = 1
           /\ \E r \in conn.rows : r.entry = inserted[j]

---------------------------------------------------------------------------
(* Calls on a Database (database.rs): initialize, insert_entry,               *)
(* get_entry_count and clear_all_entries in any order, on a connection opened *)
(* on a new file.  Each fails when the table does not exist.                  *)

\* a DictionaryEntry with the given kana_entry
SampleDictionaryEntry(kana) ==
    [kana_entry |-> kana, kanji_form |-> Some(<<24859>>), meaning |-> <<24859>>,
     pronunciation |-> None, entry_type |-> <<50>>, raw_html |-> << >>]

\* kana_entry "あい" (the entry of tests::test_entry_insertion), "あ" and "い"
DictionaryEntryInputs ==
    {SampleDictionaryEntry(<<12354, 12356>>), SampleDictionaryEntry(<<12354>>),
     SampleDictionaryEntry(<<12356>>)}

CallDatabaseInitialize ==
    /\ called' = "initialize"
    /\ conn' = initialize(conn)
    /\ result' = Ok(<< >>)
    /\ UNCHANGED <<inserted, text, markup, again, fileVars, cleanerVars, importVars>>

CallDatabaseInsertEntry ==
    \E e \in DictionaryEntryInputs :
        /\ Len(inserted) < MaxInserted
        /\ called' = "insert_entry"
        /\ IF conn.created
           THEN /\ conn' = Database_insert_entry(conn, e)
                /\ inserted' = Append(inserted, e)
                /\ result' = Ok(Database_insert_entry(conn, e).seq)
           ELSE /\ result' = Err
                /\ UNCHANGED dbVars
        /\ UNCHANGED <<text, markup, again, fileVars, cleanerVars, importVars>>

CallDatabaseGetEntryCount ==
    /\ called' = "get_entry_count"
    /\ result' = IF conn.created THEN Ok(Database_get_entry_count(conn)) ELSE Err
    /\ UNCHANGED <<dbVars, text, markup, again, fileVars, cleanerVars, importVars>>

CallDatabaseClearAllEntries ==
    /\ called' = "clear_all_entries"
    /\ IF conn.created
       THEN /\ conn' = Database_clear_all_entries(conn)
            /\ inserted' = << >>
            /\ result' = Ok(<< >>)
       ELSE /\ result' = Err
            /\ UNCHANGED dbVars
    /\ UNCHANGED <<text, markup, again, fileVars, cleanerVars, importVars>>

InitDatabase ==
    /\ NoDatabase
    /\ NoTextCall /\ NoFile /\ DataCleaner_new /\ ImportLocals

NextDatabase ==
    \/ CallDatabaseInitialize
    \/ CallDatabaseInsertEntry
    \/ CallDatabaseGetEntryCount
    \/ CallDatabaseClearAllEntries

SpecDatabase == InitDatabase /\ [][NextDatabase]_vars

\* C20: the row count equals the number of successful insert_entry calls since
\* the table was last cleared (0 after initialize on an empty database and
\* after clear_all_entries), get_entry_count returns it, and each successful
\* insert_entry returns an id > 0.
C20_RowCount ==
    /\ Database_get_entry_count(conn) = Len(inserted)
    /\ (called = "get_entry_count" /\ result.ok) => result.val = Len(inserted)
    /\ (called = "insert_entry" /\ result.ok) =>
           (result.val > 0 /\ Database_get_entry_count(conn) >= 1)
    /\ (called = "clear_all_entries" /\ result.ok) => Database_get_entry_count(conn) = 0
    /\ (called = "initialize" /\ inserted = << >>) => Database_get_entry_count(conn) = 0

\* get_entry_count returned 1 after rows were inserted, cleared and one more
\* row inserted (its id is 1 again: the sequence was reset)
C20_Witness ==
    /\ called = "get_entry_count"
    /\ result = Ok(1)
    /\ conn.seq = 1
    /\ Len(inserted) = 1
    /\ \E r \in conn.rows : r.entry = SampleDictionaryEntry(<<12354>>)

---------------------------------------------------------------------------
(* Properties of the import run: records that do not assemble, titles that    *)
(* do not parse                                                               *)

\* the next line is a markup line and a title is pending: a title+markup record
AtRecord ==
    /\ Reading
    /\ ~IsBlankLine(NextLine)
    /\ ContainsStylesheet(NextLine)
    /\ IsSome(current_title)

\* the record's markup has no container element or no data-id attribute
RecordLacksId == ~NextLine.html.val.container \/ IsNone(NextLine.html.val.data_id)

\* C16: a record whose markup has no container or no data-id produces no
\* entry, does not stop the run, and is counted: a counter of the run goes up
\* by one (processed_count is the one counter import_from_cleaned_data keeps).
C16_MalformedCounted ==
    [][(AtRecord /\ RecordLacksId) =>
          /\ pos' = pos + 1
          /\ ~finished'
          /\ entries' = entries /\ batches' = batches
          /\ processed_count' = processed_count + 1]_vars

\* the entry assembled last: the last of the buffer, or of the last batch when
\* the buffer has just been flushed
LastAssembled ==
    IF entries # << >> THEN entries[Len(entries)].entry
    ELSE batches[Len(batches)][Len(batches[Len(batches)])].entry

\* C17: when parse_headline refuses the title but the markup has a container
\* with a data-id, an entry is assembled with the title as headword and with
\* reading and script from the markup's elements or absent, and the run goes
\* on to the next line.
C17_HeadlineFailureNotFatal ==
    [][(AtRecord /\ ~RecordLacksId /\ IsNone(parse_headline(current_title.val))) =>
          /\ pos' = pos + 1
          /\ ~finished'
          /\ processed_count' = processed_count + 1
          /\ LastAssembled'.headword = current_title.val
          /\ LastAssembled'.kana_reading \in
                 {None, Some(clean_kana_text(MarkerText(NextLine.html.val.kana))),
                        Some(clean_kana_text(MarkerText(NextLine.html.val.ryaku)))}
          /\ LastAssembled'.kanji_writing \in
                 {None, Some(clean_kanji_text(MarkerText(NextLine.html.val.hyouki)))}]_vars

\* an entry whose title ("愛") did not parse was inserted, and after it an
\* entry from a later record
C17_Witness ==
    /\ Len(inserted) >= 2
    /\ IsNone(parse_headline(inserted[1].headword))
    /\ inserted[1].headword = OneKanjiLine.text
    /\ IsSome(inserted[1].kana_reading)
    /\ IsSome(parse_headline(inserted[2].headword))

---------------------------------------------------------------------------
(* DictParser (parser.rs:17-53): clean_kana and clean_kanji, one call *)

\* kana_cleaner, the class of r"[・\-\s]+": U+30FB, '-' and whitespace
KanaCleanerClass(ch) == ch \in {12539, 45} \/ IsWhitespace(ch)

\* kanji_cleaner, the class of r"[【】〔〕（）\(\)〖〗]"
KanjiCleanerClass == {12304, 12305, 12308, 12309, 65288, 65289, 40, 41, 12310, 12311}

\* the 17 glyphs removed by the chain of str::replace (parser.rs:41-46):
\* U+25C7 U+25B3 U+25BD U+25B2 U+25C6 U+25A0 U+25CF U+25CB U+25A1 U+25CE
\* U+203B U+2605 U+2606 U+2666 U+2660 U+2663 U+2665
ReplacedGlyphs == {9671, 9651, 9661, 9650, 9670, 9632, 9679, 9675, 9633, 9678,
                   8251, 9733, 9734, 9830, 9824, 9827, 9829}

\* clean_kana that leaves the hyphen-minus in place
DictParser_clean_kana_keephyphen(kana) ==
    SelectSeq(Trim(kana), LAMBDA ch : ~(ch = 12539 \/ IsWhitespace(ch)))

\* every maximal run of the class is replaced by "" in kana.trim()
DictParser_clean_kana(kana) ==
    SelectSeq(Trim(kana), LAMBDA ch : ~KanaCleanerClass(ch))

DictParser_clean_kanji(kanji) ==
    LET cleaned1 == SelectSeq(Trim(kanji), LAMBDA ch : ch \notin KanjiCleanerClass)
        cleaned == SelectSeq(cleaned1, LAMBDA ch : ch \notin ReplacedGlyphs)
    IN  IF Trim(cleaned) = << >> THEN None ELSE Some(Trim(cleaned))

\* hiragana A, U+30FB, '-', ' ', U+3010, U+3014, U+3015, kanji U+82F1, U+2605,
\* U+00B7
DictParserAlphabet == {12354, 12539, 45, 32, 12304, 12308, 12309, 33521, 9733, 183}

\* the strings of tests::test_kana_cleaning and tests::test_kanji_cleaning:
\* "あい・あお", "アーティスティック-スイミング", "  あい  ", "【愛】", "〔英〕"
TestAiAo == <<12354, 12356, 12539, 12354, 12362>>
TestSwimming == <<12450, 12540, 12486, 12451, 12473, 12486, 12451, 12483, 12463, 45,
                  12473, 12452, 12511, 12531, 12464>>
TestPaddedAi == <<32, 32, 12354, 12356, 32, 32>>
TestAi == <<OpenBracket, 24859, CloseBracket>>
TestEi == <<12308, 33521, 12309>>

DictParserInputs ==
    StringsUpTo(DictParserAlphabet, MaxTextLen)
        \cup {TestAiAo, TestSwimming, TestPaddedAi, TestAi, TestEi}

CallCleanKana ==
    /\ called = "none"
    /\ called' = "clean_kana"
    /\ result' = Some(DictParser_clean_kana(text))
    /\ again' = Some(DictParser_clean_kana(DictParser_clean_kana(text)))
    /\ UNCHANGED <<dbVars, text, markup, fileVars, cleanerVars, importVars>>

CallCleanKanji ==
    /\ called = "none"
    /\ called' = "clean_kanji"
    /\ result' = DictParser_clean_kanji(text)
    /\ UNCHANGED <<dbVars, text, markup, again, fileVars, cleanerVars, importVars>>

InitDictParser ==
    /\ text \in DictParserInputs
    /\ markup = None /\ called = "none" /\ result = None /\ again = None
    /\ NoFile /\ DataCleaner_new /\ ImportLocals /\ NoDatabase

NextDictParser == CallCleanKana \/ CallCleanKanji

SpecDictParser == InitDictParser /\ [][NextDictParser]_vars

\* s without its code points that are in S or are whitespace
RECURSIVE Without(_, _)
Without(s, S) ==
    IF s = << >> THEN << >>
    ELSE IF Head(s) \in S \/ IsWhitespace(Head(s)) THEN Without(Tail(s), S)
    ELSE <<Head(s)>> \o Without(Tail(s), S)

\* s without its code points that are in S
RECURSIVE Stripped(_, _)
Stripped(s, S) ==
    IF s = << >> THEN << >>
    ELSE IF Head(s) \in S THEN Stripped(Tail(s), S)
    ELSE <<Head(s)>> \o Stripped(Tail(s), S)

\* C18: clean_kanji returns Some(s), s the input without bracket and marker
\* glyphs (trimmed), when that remainder is not blank, and None otherwise; and
\* clean_kanji("【愛】") = Some("愛"), clean_kanji("〔英〕") = None,
\* clean_kanji("") = None.
C18_CleanKanji ==
    called = "clean_kanji" =>
        /\ LET s == Trim(Stripped(text, KanjiCleanerClass \cup ReplacedGlyphs))
           IN  result = IF s # << >> THEN Some(s) ELSE None
        /\ text = TestAi => result = Some(<<24859>>)
        /\ text = TestEi => result = None
        /\ text = << >> => result = None

\* C19: clean_kana removes every U+30FB, '-' and whitespace code point and
\* keeps the others in their order; its output holds none of them and
\* clean_kana is idempotent.
C19_CleanKana ==
    called = "clean_kana" =>
        /\ result = Some(Without(text, {12539, 45}))
        /\ \A i \in DOMAIN result.val :
               result.val[i] \notin {12539, 45} /\ ~IsWhitespace(result.val[i])
        /\ again = result
        /\ text = TestAiAo => result = Some(<<12354, 12356, 12354, 12362>>)
        /\ text = TestPaddedAi => result = Some(<<12354, 12356>>)

\* a string with a hyphen-minus between two kept code points was cleaned
C19_Witness ==
    /\ called = "clean_kana"
    /\ \E i \in DOMAIN text : text[i] = 45 /\ 1 < i /\ i < Len(text)
    /\ IsSome(result)
    /\ Len(result.val) >= 2
    /\ Len(result.val) < Len(text)

---------------------------------------------------------------------------
(* Properties of parse_headline: a bracket at the start, a stray bracket *)

\* C21: for every headline whose first character after trimming is the open
\* bracket, parse_headline returns None whatever the bracket holds; it never
\* returns an empty reading or the bracketed text as the reading.
C21_EmptyReadingFails ==
    (/\ called = "parse_headline"
     /\ Trim(text) # << >>
     /\ Head(Trim(text)) = OpenBracket) => result = None

\* the position of the first ch in s after position p (0: none)
FindCharAfter(s, ch, p) ==
    IF \E i \in DOMAIN s : i > p /\ s[i] = ch
    THEN CHOOSE i \in DOMAIN s :
             /\ i > p /\ s[i] = ch
             /\ \A j \in DOMAIN s : (j > p /\ s[j] = ch) => i <= j
    ELSE 0

\* C22: parse_headline pairs the first open bracket with the first close
\* bracket after it: when the trimmed headline has text before its first open
\* bracket and a close bracket after it, the result is Some((the text before
\* the open bracket, the text between the two)), also when a close bracket
\* stands before the open bracket.
C22_DelimiterSearch ==
    called = "parse_headline" =>
        LET headline == Trim(text)
            open == FindChar(headline, OpenBracket)
            close == FindCharAfter(headline, CloseBracket, open)
        IN  (open > 1 /\ close > 0) =>
                result = Some(<<SubSeq(headline, 1, open - 1),
                                SubSeq(headline, open + 1, close - 1)>>)

---------------------------------------------------------------------------
(* Properties of parse_entry_from_html: the script of the entry *)

\* the script the headline gives, empty when the headline does not parse
HeadlineScript(t) == IF IsSome(parse_headline(t)) THEN parse_headline(t).val[2] ELSE << >>

\* C23: the entry's script is the first non-empty value among the
\* headline-derived script and the sanitized text of the .headword_hyouki
\* element; when the headline gives an empty script and the element holds
\* non-empty text, the script is the markup value.
C23_ScriptFallback ==
    (called = "parse_entry_from_html" /\ IsSome(result)) =>
        LET fromMarkup == clean_kanji_text(MarkerText(CalledMarkup.hyouki))
        IN  /\ HeadlineScript(text) # << >> =>
                   result.val.kanji_writing = Some(HeadlineScript(text))
            /\ (HeadlineScript(text) = << >> /\ fromMarkup # << >>) =>
                   result.val.kanji_writing = Some(fromMarkup)

---------------------------------------------------------------------------
(* One call of extract_definition_text on a markup block *)

\* the elements of a block that carry a class: a meaning class, two meaning
\* classes, or another class; with the text "あ", "い" or " "
MeaningNodes ==
    {[classes |-> c, text |-> t] :
        c \in {{"mean_normal"}, {"mean_lv_2"}, {"mean_no_1"}, {"mean_normal", "mean_lv_2"},
               {"pos_s"}},
        t \in {<<12354>>, <<12356>>, <<32>>}}

RECURSIVE JoinTexts(_)
JoinTexts(nodes) ==
    IF nodes = << >> THEN << >> ELSE Head(nodes).text \o JoinTexts(Tail(nodes))

DefinitionMarkups ==
    {[container |-> TRUE, data_id |-> Some(<<49>>), data_type |-> Some(<<50>>),
      kana |-> None, hyouki |-> None, ryaku |-> None, pos |-> None, katsuyo |-> None,
      means |-> nodes, all_text |-> JoinTexts(nodes)] :
        nodes \in UNION {[1..k -> MeaningNodes] : k \in 0..MaxNodes}}

CallExtractDefinitionText ==
    /\ called = "none"
    /\ IsSome(markup)
    /\ called' = "extract_definition_text"
    /\ result' = Some(extract_definition_text(markup.val.html.val))
    /\ UNCHANGED <<dbVars, text, markup, again, fileVars, cleanerVars, importVars>>

InitDefinition ==
    /\ text = << >>
    /\ markup \in {Some(HtmlLine(h)) : h \in DefinitionMarkups}
    /\ called = "none" /\ result = None /\ again = None
    /\ NoFile /\ DataCleaner_new /\ ImportLocals /\ NoDatabase

NextDefinition == CallExtractDefinitionText

SpecDefinition == InitDefinition /\ [][NextDefinition]_vars

\* the trimmed non-blank texts of the nodes with a meaning class, in document
\* order
RECURSIVE MeaningTextsInOrder(_)
MeaningTextsInOrder(nodes) ==
    IF nodes = << >> THEN << >>
    ELSE LET n == Head(nodes)
             isMeaning == \E k \in DOMAIN MeaningSelectors : MeaningSelectors[k] \in n.classes
         IN  (IF isMeaning /\ Trim(n.text) # << >> THEN <<Trim(n.text)>> ELSE << >>)
                 \o MeaningTextsInOrder(Tail(nodes))

\* C24: definition_text is the single-space join, in document order, of the
\* non-blank trimmed texts of the nodes matching any meaning marker, whichever
\* marker each node matches.
C24_DocumentOrder ==
    (called = "extract_definition_text"
        /\ MeaningTextsInOrder(CalledMarkup.means) # << >>) =>
        result = Some(JoinSpace(MeaningTextsInOrder(CalledMarkup.means)))

---------------------------------------------------------------------------
(* Properties of the import run: pairing of titles with markup, batching *)

\* a line that is neither blank nor markup: a title line
IsTitleLine(line) == ~IsBlankLine(line) /\ ~ContainsStylesheet(line)

\* C25: a blank line clears the pending title and emits nothing; after any
\* markup line or blank line the pending title is empty; an entry is emitted
\* only from a markup line that has a pending title; and at end of stream a
\* pending title produces no entry and no error (the function returns Ok of
\* its count).
C25_PendingTitle ==
    [][/\ (Reading /\ IsBlankLine(NextLine)) =>
              (current_title' = None /\ Emitted' = Emitted)
       /\ (Reading /\ ContainsStylesheet(NextLine)) => current_title' = None
       /\ Emitted' # Emitted => AtRecord
       /\ (~finished /\ pos = Len(input)) =>
              /\ finished'
              /\ result' = Ok(processed_count)
              /\ processed_count' = processed_count
              /\ Emitted' = Emitted]_vars

\* the import has returned Ok(0) on a file where a title is followed by a
\* blank line and then by a well-formed markup line
C25_Witness ==
    /\ finished
    /\ result = Ok(0)
    /\ \E i \in DOMAIN input :
           /\ i + 2 <= Len(input)
           /\ IsTitleLine(input[i])
           /\ IsBlankLine(input[i + 1])
           /\ input[i + 2] = HtmlLine(MarkupAi)

\* the markup lines of the file that follow a title line directly and
\* assemble to an entry
AssembledLines ==
    {l \in DOMAIN input :
        /\ l > 1
        /\ ContainsStylesheet(input[l])
        /\ IsTitleLine(input[l - 1])
        /\ IsSome(parse_entry_from_html(input[l - 1].text, input[l]))}

\* C26: the buffer never holds more than the batch size (it is flushed as soon
\* as it reaches it, so it is below the batch size after every step and every
\* batch but the last is full); when the function returns Ok(n), every
\* assembled entry has been passed to insert_entries_batch exactly once and n
\* is the total number of entries passed.
C26_Batching ==
    /\ Len(entries) < BatchSize
    /\ \A k \in DOMAIN batches :
           /\ batches[k] # << >>
           /\ Len(batches[k]) <= BatchSize
           /\ k < Len(batches) => Len(batches[k]) = BatchSize
    /\ (finished /\ result.ok) =>
           /\ result.val = Len(Flatten(batches))
           /\ result.val = Cardinality(AssembledLines)
           /\ \A l \in AssembledLines :
                  Cardinality({i \in DOMAIN Flatten(batches) :
                                  Flatten(batches)[i].line = l}) = 1
           /\ \A i \in DOMAIN Flatten(batches) : Flatten(batches)[i].line \in AssembledLines

\* the import has returned Ok(3) after a full batch and a final partial batch
C26_Witness ==
    /\ finished
    /\ result = Ok(3)
    /\ Len(batches) = 2
    /\ Len(batches[1]) = BatchSize
    /\ Len(batches[2]) = 1

\* C29: the headword of an entry is the line just before its markup line, a
\* title line (so the last of several title lines in a row, and no entry for a
\* markup line without a pending title), and no title line gives two entries
\* (a markup line takes the pending title also when it does not assemble).
C29_PairingRules ==
    \A i \in DOMAIN Emitted :
        LET l == Emitted[i].line
        IN  /\ l > 1
            /\ ContainsStylesheet(input[l])
            /\ IsTitleLine(input[l - 1])
            /\ Emitted[i].entry.headword = input[l - 1].text
            /\ \A j \in DOMAIN Emitted : Emitted[j].line = l => j = i

\* an entry was emitted whose markup line follows two different title lines
C29_Witness ==
    \E i \in DOMAIN Emitted :
        LET l == Emitted[i].line
        IN  /\ l > 2
            /\ IsTitleLine(input[l - 2])
            /\ input[l - 2] # input[l - 1]
            /\ Emitted[i].entry.headword = input[l - 1].text


---------------------------------------------------------------------------
(* A run of import_from_cleaned_data whose storage may fail *)

\* the transaction dropped without ROLLBACK: what it wrote stays
Rollback_keeping(before, tx) == tx

\* drop of a Transaction that was not committed: ROLLBACK, the connection is
\* as it was at unchecked_transaction()
Rollback(before, tx) == before

\* insert_entries_batch when its k-th execute fails (k = Len(slice) + 1: the
\* commit fails): the rows before the k-th are written in the transaction,
\* `?` returns the error and the transaction is dropped
insert_entries_batch_failing(c, slice, k) ==
    Rollback(c, insert_entries_batch(c, SubSeq(slice, 1, k - 1)))

\* the flush inside the loop fails: `?` leaves import_from_cleaned_data with
\* the error, after the push and the increment of processed_count
ImportEntryFails ==
    /\ Reading
    /\ ~IsBlankLine(NextLine)
    /\ ContainsStylesheet(NextLine)
    /\ IsSome(current_title)
    /\ IsSome(parse_entry_from_html(current_title.val, NextLine))
    /\ LET entry == parse_entry_from_html(current_title.val, NextLine).val
           pushed == Push(entries, [entry |-> entry, line |-> pos + 1])
       IN  /\ Len(pushed) >= BatchSize
           /\ \E k \in 1..(Len(pushed) + 1) :
                  conn' = insert_entries_batch_failing(conn, EntriesOf(pushed), k)
           /\ entries' = pushed
    /\ processed_count' = processed_count + 1
    /\ current_title' = None
    /\ pos' = pos + 1
    /\ finished' = TRUE
    /\ result' = Err
    /\ UNCHANGED <<input, batches, inserted, text, markup, called, again, cleanerVars>>

\* the flush of the remaining entries fails
ImportFinishFails ==
    /\ ~finished
    /\ pos = Len(input)
    /\ entries # << >>
    /\ \E k \in 1..(Len(entries) + 1) :
           conn' = insert_entries_batch_failing(conn, EntriesOf(entries), k)
    /\ finished' = TRUE
    /\ result' = Err
    /\ UNCHANGED <<input, pos, entries, current_title, processed_count, batches,
                   inserted, text, markup, called, again, cleanerVars>>

NextImportFaulty == NextImport \/ ImportEntryFails \/ ImportFinishFails

SpecImportFaulty == InitImport /\ [][NextImportFaulty]_vars

\* the table after the batches of log were committed in order
RECURSIVE Committed(_)
Committed(log) ==
    IF log = << >> THEN initialize(Connection_open)
    ELSE insert_entries_batch(Committed(SubSeq(log, 1, Len(log) - 1)),
                              EntriesOf(log[Len(log)]))

\* C27: a batch that fails leaves no row in the table (the table is as it was
\* before the batch), and the import whose k-th batch fails returns an error
\* with the table holding exactly what batches 1..k-1 committed: nothing of
\* batch k, and no later batch is inserted.
C27_BatchAtomicity ==
    [][ /\ (finished' /\ result' = Err) =>
               /\ conn' = conn
               /\ conn' = Committed(batches')
               /\ batches' = batches
        /\ (finished /\ result = Err) => UNCHANGED vars ]_vars

\* the second batch failed after the first was committed
C27_Witness ==
    /\ finished
    /\ result = Err
    /\ Len(batches) = 1
    /\ entries # << >>
    /\ Cardinality(conn.rows) = 1
    /\ conn.seq = BatchSize


---------------------------------------------------------------------------
(* clean_exported_dict over a raw file, then import_from_cleaned_data over    *)
(* the file it wrote                                                          *)

\* a record with marker glyphs and whitespace around its reading "あ" and in
\* its script "愛·恋": data-id "2", kana " あ★", hyouki "【愛 ·恋】"
MarkupMarked ==
    [container |-> TRUE, data_id |-> Some(<<50>>), data_type |-> None,
     kana |-> Some(<<32, 12354, 9733>>),
     hyouki |-> Some(<<OpenBracket, 24859, 32, 183, 24651, CloseBracket>>),
     ryaku |-> None, pos |-> None, katsuyo |-> None, means |-> << >>,
     all_text |-> <<32, 12354, 9733, OpenBracket, 24859, 32, 183, 24651, CloseBracket>>]

\* a record without reading: data-id "7", hyouki "愛"
MarkupUntitled ==
    [container |-> TRUE, data_id |-> Some(<<55>>), data_type |-> None,
     kana |-> None, hyouki |-> Some(<<24859>>), ryaku |-> None,
     pos |-> None, katsuyo |-> None, means |-> << >>, all_text |-> <<24859>>]

ExportedLines ==
    {BlankLine, RedirectLine, OneKanjiLine, HtmlLine(MarkupAi), HtmlLine(MarkupMarked),
     HtmlLine(MarkupNoContainer), HtmlLine(MarkupUntitled)}

InitPipeline ==
    /\ input \in FilesUpTo(ExportedLines, MaxLines)
    /\ pos = 0
    /\ finished = FALSE
    /\ DataCleaner_new
    /\ NoTextCall
    /\ ImportLocals
    /\ NoDatabase

Cleaning == called = "none"
Importing == called = "import_from_cleaned_data"

\* ObunshaDictDatabase::new, then import_from_cleaned_data opens the file that
\* clean_exported_dict wrote
ImportOpen ==
    /\ Cleaning
    /\ finished
    /\ called' = "import_from_cleaned_data"
    /\ input' = output
    /\ pos' = 0
    /\ finished' = FALSE
    /\ conn' = initialize(Connection_open)
    /\ UNCHANGED <<inserted, text, markup, result, again, cleanerVars, importVars>>

\* the branch of the importer for a markup line without pending title is left
\* out: C28_RoundTrip states that it is never enabled on a file the cleaner wrote
NextPipeline ==
    \/ (Cleaning /\ (CleanBlank \/ CleanRedirect \/ CleanHtml \/ CleanOther \/ CleanFinish))
    \/ ImportOpen
    \/ (Importing /\ (ImportBlank \/ ImportEntry \/ ImportUnassemblable \/ ImportTitle
                        \/ ImportFinish))

SpecPipeline == InitPipeline /\ [][NextPipeline]_vars

\* the cleaned reading and the cleaned script of a markup block
CleanedReading(h) ==
    LET kana == IF IsSome(h.kana) THEN DataCleaner_clean_kana_text(h.kana.val) ELSE << >>
    IN  IF kana = << >> /\ IsSome(h.ryaku)
        THEN DataCleaner_clean_kana_text(h.ryaku.val)
        ELSE kana
CleanedScript(h) ==
    IF IsSome(h.hyouki) THEN DataCleaner_clean_kanji_text(h.hyouki.val) ELSE << >>

\* the line is a title line for the importer
IsPendingTitle(line) == ~IsBlankLine(line) /\ ~ContainsStylesheet(line)

\* C28: every record the cleaner writes is a title line, a markup line and a
\* blank line; the title is never blank; when the cleaned reading k and the
\* cleaned script j of the markup are both non-empty the title is k U+3010 j
\* U+3011 and parse_headline returns Some((k, j)) for it; and the importer,
\* reading that file, meets every markup line with the title of its own record
\* pending and every title line with no title pending.
C28_RoundTrip ==
    /\ Len(output) % 3 = 0
    /\ \A i \in DOMAIN output :
           /\ (i % 3 = 1) => IsPendingTitle(output[i])
           /\ (i % 3 = 0) => IsBlankLine(output[i])
           /\ (i % 3 = 2) =>
                  /\ ~IsBlankLine(output[i]) /\ ContainsStylesheet(output[i])
                  /\ LET k == CleanedReading(output[i].html.val)
                         j == CleanedScript(output[i].html.val)
                         title == output[i - 1].text
                     IN  (k # << >> /\ j # << >>) =>
                             /\ title = k \o <<OpenBracket>> \o j \o <<CloseBracket>>
                             /\ parse_headline(title) = Some(<<k, j>>)
    /\ (Importing /\ Reading) =>
           /\ ContainsStylesheet(NextLine) =>
                  /\ pos >= 1
                  /\ current_title = Some(input[pos].text)
           /\ IsPendingTitle(NextLine) => current_title = None

\* the importer finished a file in which the cleaner wrote a bracketed title
\* whose markup had glyphs and whitespace to remove
C28_Witness ==
    /\ Importing
    /\ finished
    /\ processed_count >= 1
    /\ \E i \in DOMAIN output :
           /\ i % 3 = 2
           /\ output[i] = HtmlLine(MarkupMarked)
           /\ output[i - 1].text = <<12354, OpenBracket, 24859, 183, 24651, CloseBracket>>


---------------------------------------------------------------------------
(* ObunshaDictDatabase::search_by_kanji_smart (obunsha_dict.rs:211-277) *)

\* U+00B7, the separator of the writings of one entry
MiddleDot == 183

\* the wildcards of LIKE: '%' and '_'
LikeAny == 37
LikeOne == 95

\* LIKE compares ASCII letters without case
FoldAscii(ch) == IF ch \in 65..90 THEN ch + 32 ELSE ch

\* s LIKE pattern, without ESCAPE
RECURSIVE Like(_, _)
Like(s, pattern) ==
    IF pattern = << >> THEN s = << >>
    ELSE IF Head(pattern) = LikeAny
         THEN \E k \in 0..Len(s) : Like(SubSeq(s, k + 1, Len(s)), Tail(pattern))
    ELSE /\ s # << >>
         /\ Head(pattern) = LikeOne \/ FoldAscii(Head(pattern)) = FoldAscii(Head(s))
         /\ Like(Tail(s), Tail(pattern))

\* str::split(sep), as the sequence of its parts
RECURSIVE Split(_, _)
Split(s, sep) ==
    LET at == FindChar(s, sep)
    IN  IF at = 0 THEN <<s>>
        ELSE <<SubSeq(s, 1, at - 1)>> \o Split(SubSeq(s, at + 1, Len(s)), sep)

\* the application filter without the split: every row that LIKE returned
AnyPartIs_unfiltered(writing, kanji) == TRUE

\* kanji_writing.split('·').any(|part| part == kanji)
AnyPartIs(writing, kanji) ==
    \E i \in DOMAIN Split(writing, MiddleDot) : Split(writing, MiddleDot)[i] = kanji

\* a <= b in the BINARY collation: the order of the UTF-8 bytes, which is the
\* order of the code points
RECURSIVE CollateLeq(_, _)
CollateLeq(a, b) ==
    IF a = << >> THEN TRUE
    ELSE IF b = << >> THEN FALSE
    ELSE IF Head(a) # Head(b) THEN Head(a) < Head(b)
    ELSE CollateLeq(Tail(a), Tail(b))

\* ORDER BY headword over the rows S: the rows in an order of their
\* headwords, rows of equal headword in any order
OrderByHeadword(S) ==
    {f \in [1..Cardinality(S) -> S] :
        /\ \A i, j \in DOMAIN f : i # j => f[i] # f[j]
        /\ \A i, j \in DOMAIN f :
               i < j => CollateLeq(f[i].entry.headword, f[j].entry.headword)}

\* WHERE kanji_writing = ?1 : NULL is equal to nothing
RowsWithKanjiWriting(c, kanji) ==
    {r \in c.rows : r.entry.kanji_writing = Some(kanji)}

\* WHERE kanji_writing LIKE ?1 with the pattern %kanji% : NULL is like nothing
RowsLikeKanji(c, kanji) ==
    {r \in c.rows :
        /\ IsSome(r.entry.kanji_writing)
        /\ Like(r.entry.kanji_writing.val, <<LikeAny>> \o kanji \o <<LikeAny>>)}

\* the results of search_by_kanji_smart: the rows of the first query, then the
\* rows of the second whose data_id was not seen and that pass the filter
search_by_kanji_smart(c, kanji) ==
    {first \o SelectSeq(second,
                        LAMBDA r : /\ \A i \in DOMAIN first :
                                          first[i].entry.data_id # r.entry.data_id
                                   /\ IsSome(r.entry.kanji_writing)
                                   /\ AnyPartIs(r.entry.kanji_writing.val, kanji)) :
        first \in OrderByHeadword(RowsWithKanjiWriting(c, kanji)),
        second \in OrderByHeadword(RowsLikeKanji(c, kanji))}

\* the most rows of a table searched
MaxRows == 3

\* an entry with its data_id, its headword and its kanji_writing
SearchEntry(id, word, writing) ==
    [SampleEntry(id, word) EXCEPT !.kanji_writing = writing]

\* あい 愛, あい 愛·恋, あいじょう 愛情, あい 恋·愛, あ (no writing),
\* い with the empty writing, えー A
SearchEntries ==
    << SearchEntry(<<49>>, <<12354, 12356>>, Some(<<24859>>)),
       SearchEntry(<<50>>, <<12354, 12356>>, Some(<<24859, MiddleDot, 24651>>)),
       SearchEntry(<<51>>, <<12354, 12356, 12376>>, Some(<<24859, 24773>>)),
       SearchEntry(<<52>>, <<12354, 12356>>, Some(<<24651, MiddleDot, 24859>>)),
       SearchEntry(<<53>>, <<12354>>, None),
       SearchEntry(<<54>>, <<12356>>, Some(<< >>)),
       SearchEntry(<<55>>, <<12360, 12540>>, Some(<<65>>)) >>

\* the entries of SearchEntries at the positions I, in order
RECURSIVE EntriesAt(_, _)
EntriesAt(I, n) ==
    IF n = 0 THEN << >>
    ELSE EntriesAt(I, n - 1) \o (IF n \in I THEN <<SearchEntries[n]>> ELSE << >>)

SearchTables ==
    {EntriesAt(I, Len(SearchEntries)) :
        I \in {J \in SUBSET DOMAIN SearchEntries : Cardinality(J) <= MaxRows}}

\* 愛, 恋, 情, the empty query, "_", "a", 愛·恋
SearchQueries ==
    {<<24859>>, <<24651>>, <<24773>>, << >>, <<LikeOne>>, <<97>>,
     <<24859, MiddleDot, 24651>>}

CallSearchByKanjiSmart ==
    /\ called = "none"
    /\ called' = "search_by_kanji_smart"
    /\ \E found \in search_by_kanji_smart(conn, text) : result' = Ok(found)
    /\ UNCHANGED <<dbVars, text, markup, again, fileVars, cleanerVars, importVars>>

InitSearch ==
    /\ text \in SearchQueries
    /\ markup = None /\ called = "none" /\ result = None /\ again = None
    /\ \E table \in SearchTables :
           /\ conn = insert_entries_batch(initialize(Connection_open), table)
           /\ inserted = table
    /\ NoFile /\ DataCleaner_new /\ ImportLocals

NextSearch == CallSearchByKanjiSmart

SpecSearch == InitSearch /\ [][NextSearch]_vars

\* q is a whole writing of s: it holds no separator and stands in s between
\* separators or the ends of s
IsWritingOf(q, s) ==
    /\ \A i \in DOMAIN q : q[i] # MiddleDot
    /\ \E i \in 1..(Len(s) + 1) :
           /\ i + Len(q) - 1 <= Len(s)
           /\ SubSeq(s, i, i + Len(q) - 1) = q
           /\ i = 1 \/ s[i - 1] = MiddleDot
           /\ i + Len(q) - 1 = Len(s) \/ s[i + Len(q)] = MiddleDot

\* C30: the result of search_by_kanji_smart(q) holds no data_id twice; it is
\* the rows whose kanji_writing equals q, followed by exactly the other rows
\* whose kanji_writing has q as one of its writings between U+00B7; a row
\* without kanji_writing, or with q only inside a writing, is not returned.
C30_SmartSearch ==
    called = "search_by_kanji_smart" =>
        LET found == result.val
            exact == {r \in conn.rows : r.entry.kanji_writing = Some(text)}
            parts == {r \in conn.rows \ exact :
                         /\ IsSome(r.entry.kanji_writing)
                         /\ IsWritingOf(text, r.entry.kanji_writing.val)}
            n == Cardinality(exact)
        IN  /\ result.ok
            /\ \A i, j \in DOMAIN found :
                   i # j => found[i].entry.data_id # found[j].entry.data_id
            /\ Len(found) = n + Cardinality(parts)
            /\ {found[i] : i \in 1..n} = exact
            /\ {found[i] : i \in (n + 1)..Len(found)} = parts
            /\ \A i \in DOMAIN found : IsSome(found[i].entry.kanji_writing)

\* the search for 愛 returned 愛, then 愛·恋, and left out 愛情
C30_Witness ==
    /\ called = "search_by_kanji_smart"
    /\ text = <<24859>>
    /\ Len(result.val) = 2
    /\ result.val[1].entry.kanji_writing = Some(<<24859>>)
    /\ result.val[2].entry.kanji_writing = Some(<<24859, MiddleDot, 24651>>)
    /\ \E r \in conn.rows : r.entry.kanji_writing = Some(<<24859, 24773>>)

====
